---- MODULE Spec2Model ----
(***************************************************************************)
(* Model of ClipboardModel (src/src/clipboardmodel.cpp): the list of       *)
(* clipboard entries, the current search expression, and the operations    *)
(* setSearch, setData, insertRows, removeRows, move and moveItems.         *)
(*                                                                         *)
(* Rows are numbered from 0 as in the code; the TLA+ sequence that holds   *)
(* them is indexed from 1, so row r is m_clipboardList[r+1].               *)
(* A text is a sequence of one-character strings.  A highlight is a        *)
(* sequence of markup tokens: one token per escaped character plus the     *)
(* two span tags.                                                          *)
(***************************************************************************)
EXTENDS Integers, Sequences, FiniteSets, Bags, TLC

\* ---------------------------------------------------------------- bounds
MaxRows == 3
MaxInsert == 2

\* The texts an entry may hold.
Texts == { <<>>, <<"b", "a">>, <<"a", "<", "a">> }

\* ---------------------------------------------------------------- QRegExp
\* A QRegExp is modelled by its pattern: the empty pattern, a literal
\* character c, or c* (zero or more c, greedy).  NULL is the null pointer.
NULL == [kind |-> "null", c |-> ""]
EmptyRe == [kind |-> "empty", c |-> ""]
Patterns == { EmptyRe,
              [kind |-> "lit", c |-> "a"],
              [kind |-> "star", c |-> "a"] }

isEmpty(re) == re.kind = "empty"

RECURSIVE RunLength(_, _, _)
\* number of consecutive characters c in str from offset p (0-based)
RunLength(str, c, p) ==
    IF p < Len(str) /\ str[p + 1] = c THEN 1 + RunLength(str, c, p + 1) ELSE 0

\* length of the match of re anchored at offset p, or -1 when there is none
MatchLenAt(re, str, p) ==
    CASE re.kind = "lit"  -> IF p < Len(str) /\ str[p + 1] = re.c THEN 1 ELSE -1
      [] re.kind = "star" -> RunLength(str, re.c, p)
      [] OTHER            -> 0

\* QRegExp::indexIn(str, offset): offset of the leftmost match at or after
\* offset, or -1
indexIn(re, str, offset) ==
    LET hits == { p \in offset..Len(str) : MatchLenAt(re, str, p) # -1 }
    IN  IF hits = {} THEN -1
        ELSE CHOOSE p \in hits : \A q \in hits : p <= q

\* QRegExp::matchedLength() after indexIn returned b
matchedLength(re, str, b) == MatchLenAt(re, str, b)

\* ---------------------------------------------------------------- QString
\* QString::mid(position, n)
mid(str, position, n) ==
    IF position >= Len(str) THEN <<>>
    ELSE SubSeq(str, position + 1,
                IF position + n > Len(str) THEN Len(str) ELSE position + n)

SpanOpen == "<span class=\"em\">"
SpanClose == "</span>"

escapeChar(ch) ==
    CASE ch = " "  -> "&nbsp;"
      [] ch = "\t" -> "&nbsp;&nbsp;"
      [] ch = "\n" -> "<br />"
      [] ch = ">"  -> "&gt;"
      [] ch = "<"  -> "&lt;"
      [] ch = "&"  -> "&amp;"
      [] OTHER     -> ch

escape(str) == [k \in 1..Len(str) |-> escapeChar(str[k])]

\* ---------------------------------------------------------------- entries
\* A ClipboardItem built from a string: not filtered, no highlight yet.
NewItem(text) == [text |-> text, filtered |-> FALSE, highlight |-> <<>>]

\* ---------------------------------------------------------------- state
VARIABLES m_clipboardList, m_re, last
vars == <<m_clipboardList, m_re, last>>

rowCount(l) == Len(l)

\* Record of the last call: its name, its arguments, its result, the list
\* before it (for the calls that change the rows), whether it put an entry in
\* row 0, the number of endMoveRows() calls it made, and for removeRows the
\* list before an insertRows with the same arguments that came right before.
Call(op, ret, before, a1, a2, sel, key, re, top, ended, undo) ==
    [op |-> op, ret |-> ret, before |-> before, a1 |-> a1, a2 |-> a2,
     sel |-> sel, key |-> key, re |-> re, top |-> top, ended |-> ended,
     undo |-> undo]

RECURSIVE ListsUpTo(_)
ListsUpTo(n) ==
    IF n = 0 THEN { <<>> }
    ELSE ListsUpTo(n - 1) \cup
         { Append(l, NewItem(t)) : l \in { x \in ListsUpTo(n - 1) : Len(x) = n - 1 },
                                   t \in Texts }

Init ==
    /\ m_clipboardList \in ListsUpTo(MaxRows)
    /\ m_re = EmptyRe
    /\ last = Call("init", TRUE, <<>>, 0, 0, {}, "", NULL, FALSE, 0, <<>>)


\* ---------------------------------------------------------------- QList
QListInsert(l, i, v) ==
    LET k == IF i <= 0 THEN 0 ELSE IF i >= Len(l) THEN Len(l) ELSE i
    IN  SubSeq(l, 1, k) \o <<v>> \o SubSeq(l, k + 1, Len(l))

QListRemoveLast(l, i) == SubSeq(l, 1, Len(l) - 1)

QListRemoveAt(l, i) == SubSeq(l, 1, i) \o SubSeq(l, i + 2, Len(l))

QListMoveSwap(l, from, to) ==
    [l EXCEPT ![from + 1] = l[to + 1], ![to + 1] = l[from + 1]]

QListMoveOverwrite(l, from, to) == [l EXCEPT ![to + 1] = l[from + 1]]

\* QList::move(from, to): take the entry out of row from, put it in at row to
QListMove(l, from, to) == QListInsert(QListRemoveAt(l, from), to, l[from + 1])

\* ---------------------------------------------------------------- search
RECURSIVE highlightLoop(_, _, _, _)
\* the while loop of setSearch(i, re): a is the scan offset, h the highlight
highlightLoop(str, re, a, h) ==
    LET b == indexIn(re, str, a)
    IN  IF b = -1 THEN [a |-> a, highlight |-> h]
        ELSE LET len == matchedLength(re, str, b)
             IN  IF len = 0 THEN [a |-> a, highlight |-> h]
                 ELSE highlightLoop(str, re, b + len,
                          h \o escape(mid(str, a, b - a)) \o <<SpanOpen>>
                            \o escape(mid(str, b, len)) \o <<SpanClose>>)

\* the text after the last match
highlightTail(str, a) ==
    IF a # Len(str) THEN escape(mid(str, a, Len(str) - a)) ELSE <<>>

\* setSearch(i, re) on one entry
setSearchRow(item, re) ==
    IF re = NULL \/ isEmpty(re) THEN [item EXCEPT !.filtered = FALSE]
    ELSE LET r == highlightLoop(item.text, re, 0, <<>>)
         IN  IF r.highlight = <<>> THEN [item EXCEPT !.filtered = TRUE]
             ELSE [item EXCEPT !.filtered = FALSE,
                               !.highlight = r.highlight \o highlightTail(item.text, r.a)]

\* The regular expression setData passes on: setSearch(row) names none.
DefaultRe == NULL

\* setSearch(re)
SetSearch ==
    \E re \in Patterns \cup {NULL} :
        LET skip == IF re = NULL THEN isEmpty(m_re) ELSE m_re = re
            new  == IF re = NULL THEN EmptyRe ELSE re
        IN  /\ m_re' = IF skip THEN m_re ELSE new
            /\ m_clipboardList' =
                   IF skip THEN m_clipboardList
                   ELSE [k \in 1..Len(m_clipboardList) |->
                            setSearchRow(m_clipboardList[k], new)]
            /\ last' = Call("setSearch", ~skip, <<>>, 0, 0, {}, "",
                            re, FALSE, 0, <<>>)

\* setData(index, value, role) with a text value (images are left out)
SetData ==
    \E row \in 0..(Len(m_clipboardList) - 1), value \in Texts,
       role \in {"EditRole", "DisplayRole"} :
        /\ m_clipboardList' =
               IF role = "EditRole"
               THEN [m_clipboardList EXCEPT
                        ![row + 1] = setSearchRow(NewItem(value), DefaultRe)]
               ELSE m_clipboardList
        /\ last' = Call("setData", role = "EditRole", <<>>, row, 0,
                        {}, role, NULL, FALSE, 0, <<>>)
        /\ UNCHANGED m_re

\* ---------------------------------------------------------------- rows
RECURSIVE insertRows(_, _, _)
insertRows(l, position, rows) ==
    IF rows <= 0 THEN l
    ELSE insertRows(QListInsert(l, position, NewItem(<<>>)), position, rows - 1)

RECURSIVE removeRows(_, _, _)
removeRows(l, position, rows) ==
    IF rows <= 0 THEN l
    ELSE removeRows(QListRemoveAt(l, position), position, rows - 1)

InsertRows ==
    \E position \in 0..Len(m_clipboardList), rows \in 1..MaxInsert :
        /\ Len(m_clipboardList) + rows <= MaxRows
        /\ m_clipboardList' = insertRows(m_clipboardList, position, rows)
        /\ last' = Call("insertRows", TRUE, m_clipboardList, position, rows,
                        {}, "", NULL, FALSE, 0, <<>>)
        /\ UNCHANGED m_re

RemoveRows ==
    \E position \in 0..Len(m_clipboardList), rows \in 1..MaxInsert :
        /\ position + rows <= Len(m_clipboardList)
        /\ m_clipboardList' = removeRows(m_clipboardList, position, rows)
        /\ last' = Call("removeRows", TRUE, m_clipboardList, position, rows,
                        {}, "", NULL, FALSE, 0,
                        IF last.op = "insertRows" /\ last.a1 = position
                                                  /\ last.a2 = rows
                        THEN <<[list |-> last.before, ret |-> last.ret]>>
                        ELSE <<>>)
        /\ UNCHANGED m_re

\* ---------------------------------------------------------------- moving
getRowNumber(n, row, cycle) ==
    IF n = 0 THEN -1
    ELSE IF row >= n THEN (IF cycle THEN 0 ELSE n - 1)
    ELSE IF row < 0 THEN (IF cycle THEN n - 1 ELSE 0)
    ELSE row

beginMoveRowsAlways(sourceFirst, sourceLast, destinationChild) == TRUE

\* QAbstractItemModel::beginMoveRows within one parent: refuses a
\* destination inside the moved range or right after it
beginMoveRows(sourceFirst, sourceLast, destinationChild) ==
    ~(destinationChild >= sourceFirst /\ destinationChild <= sourceLast + 1)

\* move(pos, newpos): the new list, the result, and the number of
\* endMoveRows() calls
move(l, pos, newpos) ==
    LET from == getRowNumber(rowCount(l), pos, TRUE)
        to   == getRowNumber(rowCount(l), newpos, TRUE)
    IN  IF from = -1 \/ to = -1 THEN [list |-> l, ret |-> FALSE, ended |-> 0]
        ELSE IF ~beginMoveRows(from, from, IF from < to THEN to + 1 ELSE to)
        THEN [list |-> l, ret |-> FALSE, ended |-> 0]
        ELSE [list |-> QListMove(l, from, to), ret |-> TRUE, ended |-> 1]

RECURSIVE qSort(_)
\* the selected rows in ascending order
qSort(S) ==
    IF S = {} THEN <<>>
    ELSE LET m == CHOOSE x \in S : \A y \in S : x <= y
         IN  <<m>> \o qSort(S \ {m})

RECURSIVE moveItemsLoop(_, _, _, _, _, _, _)
\* the for loop of moveItems from index i on; top records whether some
\* entry was put in row 0, ended counts the endMoveRows() calls
moveItemsLoop(l, list, key, i, res, top, ended) ==
    IF i >= Len(list) THEN [list |-> l, ret |-> res, top |-> top, ended |-> ended]
    ELSE LET from == IF key \in {"Key_Down", "Key_End"}
                     THEN list[Len(list) - i] ELSE list[i + 1]
             to   == CASE key = "Key_Down" -> from + 1
                       [] key = "Key_Up"   -> from - 1
                       [] key = "Key_End"  -> rowCount(l) - i - 1
                       [] OTHER            -> 0 + i
             m    == move(l, from, to)
         IN  IF ~m.ret
             THEN [list |-> m.list, ret |-> FALSE, top |-> top, ended |-> ended]
             ELSE moveItemsLoop(m.list, list, key, i + 1,
                                IF ~res THEN to = 0 ELSE res,
                                top \/ getRowNumber(rowCount(l), to, TRUE) = 0,
                                ended + 1)

moveItems(l, sel, key) == moveItemsLoop(l, qSort(sel), key, 0, FALSE, FALSE, 0)

Keys == {"Key_Down", "Key_Up", "Key_End", "Key_Home"}

Move ==
    \E pos \in -1..MaxRows, newpos \in -1..MaxRows :
        LET m == move(m_clipboardList, pos, newpos)
        IN  /\ m_clipboardList' = m.list
            /\ last' = Call("move", m.ret, m_clipboardList, pos, newpos, {}, "",
                            NULL, FALSE, m.ended, <<>>)
            /\ UNCHANGED m_re

MoveItems ==
    \E sel \in SUBSET (0..(Len(m_clipboardList) - 1)), key \in Keys :
        LET m == moveItems(m_clipboardList, sel, key)
        IN  /\ m_clipboardList' = m.list
            /\ last' = Call("moveItems", m.ret, m_clipboardList, 0, 0, sel, key,
                            NULL, m.top, m.ended, <<>>)
            /\ UNCHANGED m_re

Next ==
    \/ SetSearch
    \/ SetData
    \/ InsertRows
    \/ RemoveRows
    \/ Move
    \/ MoveItems

Spec == Init /\ [][Next]_vars

\* The search, edit, insert and remove operations alone.
NextSearch ==
    \/ SetSearch
    \/ SetData
    \/ InsertRows
    \/ RemoveRows

SpecSearch == Init /\ [][NextSearch]_vars

\* The reordering operations alone, on a list that was built from some texts
\* and then searched with some expression.
InitMove ==
    /\ m_re \in Patterns
    /\ \E l \in ListsUpTo(MaxRows) :
           m_clipboardList = [k \in 1..Len(l) |-> setSearchRow(l[k], m_re)]
    /\ last = Call("init", TRUE, <<>>, 0, 0, {}, "", NULL, FALSE, 0, <<>>)

NextMove ==
    \/ Move
    \/ MoveItems

SpecMove == InitMove /\ [][NextMove]_vars


\* ---------------------------------------------------------------- helpers
\* of the properties

\* the rows of l listed in S, in ascending row order
SelectRows(l, S) == LET o == qSort(S) IN [k \in 1..Len(o) |-> l[o[k] + 1]]

\* l without its row r
DropRow(l, r) == [k \in 1..(Len(l) - 1) |-> IF k <= r THEN l[k] ELSE l[k + 1]]

\* how many times each entry occurs in l
BagOfList(l) ==
    [x \in { l[k] : k \in DOMAIN l } |-> Cardinality({ k \in DOMAIN l : l[k] = x })]

Rows(l) == 0..(Len(l) - 1)

\* the text has a match of re that is not empty
HasNonEmptyMatch(str, re) == \E p \in 0..Len(str) : MatchLenAt(re, str, p) > 0

IsTag(tok) == tok \in {SpanOpen, SpanClose}

unescapeToken(tok) ==
    CASE tok = "&nbsp;"       -> " "
      [] tok = "&nbsp;&nbsp;" -> "\t"
      [] tok = "<br />"       -> "\n"
      [] tok = "&gt;"         -> ">"
      [] tok = "&lt;"         -> "<"
      [] tok = "&amp;"        -> "&"
      [] OTHER                -> tok

\* the characters of a highlight, tags taken out and escapes undone
RawOf(h) ==
    LET NotTag(tok) == ~IsTag(tok)
        body == SelectSeq(h, NotTag)
    IN  [k \in 1..Len(body) |-> unescapeToken(body[k])]

\* the tags of a highlight come as open, close, open, close, ...
TagsAlternate(h) ==
    LET tags == SelectSeq(h, IsTag)
    IN  /\ Len(tags) >= 2
        /\ Len(tags) % 2 = 0
        /\ \A k \in 1..Len(tags) :
               tags[k] = IF k % 2 = 1 THEN SpanOpen ELSE SpanClose

\* token k of h stands between an opening tag and its closing tag
InSpan(h, k) ==
    /\ ~IsTag(h[k])
    /\ Cardinality({ j \in 1..(k - 1) : h[j] = SpanOpen })
         > Cardinality({ j \in 1..(k - 1) : h[j] = SpanClose })

\* the pieces of h are the text cut in consecutive pieces, the wrapped ones
\* not empty and made of matched characters
PiecesCoverText(item, re) ==
    LET h == item.highlight
    IN  /\ RawOf(h) = item.text
        /\ TagsAlternate(h)
        /\ \A k \in 1..(Len(h) - 1) : ~(h[k] = SpanOpen /\ h[k + 1] = SpanClose)
        /\ \A k \in 1..Len(h) : InSpan(h, k) => unescapeToken(h[k]) = re.c

\* no character that matches is left outside the wrapped pieces
EveryMatchWrapped(item, re) ==
    LET h == item.highlight
    IN  \A k \in 1..Len(h) :
            (~IsTag(h[k]) /\ ~InSpan(h, k)) => unescapeToken(h[k]) # re.c

\* the normalised rows of the last move
LastFrom == getRowNumber(Len(last.before), last.a1, TRUE)
LastTo == getRowNumber(Len(last.before), last.a2, TRUE)

\* ---------------------------------------------------------------- claims

\* C1: moveItems returns true if some entry was moved to row 0 during the
\* call, and false otherwise.
MoveItemsReportsTop ==
    last.op = "moveItems" => (last.ret <=> last.top)

\* C2: whenever move(pos, newpos) returns true, the entry that was at row
\* getRowNumber(pos, true) is at row getRowNumber(newpos, true) afterwards,
\* and the other entries keep their relative order.
MovePlacesEntry ==
    (last.op = "move" /\ last.ret) =>
        /\ Len(m_clipboardList) = Len(last.before)
        /\ m_clipboardList[LastTo + 1] = last.before[LastFrom + 1]
        /\ DropRow(m_clipboardList, LastTo) = DropRow(last.before, LastFrom)

\* C2 witness: a successful move across at least one other row, in a list
\* whose entries all differ.
MovePlacesEntryWitness ==
    /\ last.op = "move"
    /\ last.ret
    /\ LastTo - LastFrom >= 2
    /\ Cardinality({ m_clipboardList[k] : k \in DOMAIN m_clipboardList })
         = Len(m_clipboardList)

\* C3: after any sequence of calls a row is filtered exactly when the current
\* search is not empty and the row's text has no non-empty match of it.
FilterConsistent ==
    \A k \in DOMAIN m_clipboardList :
        m_clipboardList[k].filtered <=>
            (~isEmpty(m_re) /\ ~HasNonEmptyMatch(m_clipboardList[k].text, m_re))

\* C4: after setSearch with a non-empty expression, every row whose text has
\* a non-empty match has a highlight whose pieces are the text cut in
\* consecutive pieces, every match wrapped and the rest unwrapped.
HighlightCoversTextAnyMatch ==
    (last.op = "setSearch" /\ last.ret /\ ~isEmpty(m_re)) =>
        \A k \in DOMAIN m_clipboardList :
            HasNonEmptyMatch(m_clipboardList[k].text, m_re) =>
                /\ PiecesCoverText(m_clipboardList[k], m_re)
                /\ EveryMatchWrapped(m_clipboardList[k], m_re)

\* C5: insertRows(position, rows) followed by removeRows(position, rows)
\* returns true twice and leaves the list as it was before the two calls.
InsertThenRemoveRestores ==
    (last.op = "removeRows" /\ last.undo # <<>>) =>
        /\ last.ret
        /\ last.undo[1].ret
        /\ m_clipboardList = last.undo[1].list

\* C5 witness: rows inserted between two entries were removed again.
InsertThenRemoveRestoresWitness ==
    /\ last.op = "removeRows"
    /\ last.undo # <<>>
    /\ last.a1 > 0
    /\ last.a1 < Len(m_clipboardList)

\* C6: moveItems with Key_Home (Key_End) leaves the selected entries as one
\* block at the top (end) of the list in their former order, the unselected
\* entries keeping their order.
HomeEndMakesBlock ==
    (last.op = "moveItems" /\ last.key \in {"Key_Home", "Key_End"}) =>
        LET picked == SelectRows(last.before, last.sel)
            others == SelectRows(last.before, Rows(last.before) \ last.sel)
        IN  m_clipboardList = IF last.key = "Key_Home" THEN picked \o others
                                                       ELSE others \o picked

\* C7: moveItems with Key_Up (Key_Down) puts each selected entry one row
\* above (below) its row, wrapping at the ends, and the unselected entries
\* keep their relative order.
UpDownShiftsSelection ==
    (last.op = "moveItems" /\ last.key \in {"Key_Up", "Key_Down"}) =>
        LET n == Len(last.before)
            d == IF last.key = "Key_Up" THEN -1 ELSE 1
            target(r) == getRowNumber(n, r + d, TRUE)
            targets == { target(r) : r \in last.sel }
        IN  /\ Len(m_clipboardList) = n
            /\ \A r \in last.sel : m_clipboardList[target(r) + 1] = last.before[r + 1]
            /\ SelectRows(m_clipboardList, Rows(last.before) \ targets)
                 = SelectRows(last.before, Rows(last.before) \ last.sel)

\* C8: after move or moveItems the list has the length it had and holds the
\* same entries, each with its text, filtered flag and highlight.
ReorderKeepsEntries ==
    last.op \in {"move", "moveItems"} =>
        /\ Len(m_clipboardList) = Len(last.before)
        /\ BagOfList(m_clipboardList) = BagOfList(last.before)

\* C8 witness: moveItems moved two entries of a list that holds a filtered
\* entry and a highlighted one.
ReorderKeepsEntriesWitness ==
    /\ last.op = "moveItems"
    /\ last.ended >= 2
    /\ m_clipboardList # last.before
    /\ \E k \in DOMAIN m_clipboardList : m_clipboardList[k].filtered
    /\ \E k \in DOMAIN m_clipboardList : m_clipboardList[k].highlight # <<>>

\* C9: move returns false exactly when the list is empty or both positions
\* normalise to the same row; then the list is unchanged and no row move is
\* completed.
MoveFailsExactly ==
    last.op = "move" =>
        /\ ~last.ret <=> (Len(last.before) = 0 \/ LastFrom = LastTo)
        /\ ~last.ret => (m_clipboardList = last.before /\ last.ended = 0)

\* C9 witness: a move between two different positions of a list of several
\* rows failed because both wrap to the same row.
MoveFailsExactlyWitness ==
    /\ last.op = "move"
    /\ ~last.ret
    /\ Len(last.before) >= 2
    /\ last.a1 # last.a2

====
